---- MODULE Spec2Model ----
(***************************************************************************)
(* A model of the binding layer of iree-rs (src/runtime/base.rs and        *)
(* src/runtime/api.rs): the allocator bridge, the status wrapper, the      *)
(* status-code mapping and the instance / device / session wrappers.       *)
(*                                                                         *)
(* Machine words are scaled down to PtrBits bits; ALIGNMENT keeps its      *)
(* value.  Memory is byte-addressed: a host block is a sequence of cells,  *)
(* a cell is a byte 0..255 or Uninit.                                      *)
(***************************************************************************)
EXTENDS Integers, Sequences, FiniteSets, TLC

VARIABLES
    heap,       \* host allocator: base address -> cells of the block (<<>>: free)
    held,       \* user pointer the native caller holds -> the size it asked for
    inout,      \* the caller's in/out pointer variable after the last command
    status,     \* raw status returned by the last allocator command
    last,       \* what the last allocator command was given and did
    pc,         \* "running", or how the process died
    lastNull,   \* the last command given to the null allocator, and its status
    codeIn,     \* status-code conversion: the native code converted
    kindOut,    \* status-code conversion: the StatusErrorKind obtained
    codeBack,   \* status-code conversion: the native code converted back
    vals,       \* slot -> the Status / StatusError value living there
    rec,        \* native status handle -> state of its error record
    ignoreCount,\* handle -> times it was passed to iree_status_ignore
    renders,    \* handle -> times it was passed to iree_status_to_string
    misused,    \* handles the native library was given after their record was freed
    chained,    \* handles that were passed to iree_status_join
    lastChain,  \* what the last Status::chain was given and returned
    droppedAs,  \* handle -> the wrapper type whose drop disposed of it
    fmt,        \* position of the running Display::fmt, and its locals
    inst,       \* Instance id -> "none", "alive" (the wrapper exists), "dropped"
    dev,        \* Device id -> its state and the Instance it came from
    sess,       \* Session id -> its state, its Instance, Device and module buffers
    buf,        \* caller's byte buffer id -> "alive", "dropped"
    releases,   \* native release entry point -> handle -> times it was called
    lastCall,   \* the last native runtime call a wrapper made, and its result
    owner,      \* Session -> the execution context that owns the Session value
    inCall      \* execution context -> the native call it is inside, if any

allocVars == <<heap, held, inout, status, last, pc, lastNull>>
nullVars == <<lastNull>>
codeVars == <<codeIn, kindOut, codeBack>>
statusVars == <<vals, rec, ignoreCount, renders, misused, chained, lastChain,
                droppedAs, fmt>>
concVars == <<owner, inCall>>
ownVars == <<inst, dev, sess, buf, releases, lastCall, owner, inCall>>
vars == <<heap, held, inout, status, last, pc, codeIn, kindOut, codeBack,
          vals, rec, ignoreCount, renders, misused, chained, lastChain,
          droppedAs, fmt, lastNull, inst, dev, sess, buf, releases, lastCall,
          owner, inCall>>

----------------------------------------------------------------------------
(* Machine model *)

ALIGNMENT == 16

\* Width of usize / of a pointer, scaled down.
PtrBits == 8

\* Largest small request size drawn by the native caller.
MaxSize == 2

\* Number of blocks the native caller holds at once.
MaxLive == 1

\* Largest native status code value drawn for the conversions.
MaxCode == 60

\* Number of error records the native library creates.
MaxHandles == 1

\* Number of Status / StatusError values alive at once.
MaxVals == 2

\* Times one status is rendered by Display / Debug.
MaxRenders == 2

\* Numbers of instances, devices, sessions and module buffers created.
MaxInst == 1
MaxDev == 1
MaxSess == 1
MaxBuf == 1

\* Number of execution contexts (threads) of the caller.
MaxCtx == 2

WordRange == 2 ^ PtrBits
USIZE_MAX == WordRange - 1
ISIZE_MAX == 2 ^ (PtrBits - 1) - 1
WordBytes == (PtrBits + 7) \div 8

Uninit == 255 + 1

\* std::ptr::null_mut()
NULL == 0

\* A pointer advanced by the width of the header instead of by n.
wrapping_add_header(p, n) == (p + WordBytes) % WordRange

wrapping_add(p, n) == (p + n) % WordRange
wrapping_sub(p, n) == (p + WordRange - (n % WordRange)) % WordRange

Min(a, b) == IF a < b THEN a ELSE b

\* A usize stored into / loaded from memory (little endian, WordBytes cells).
EncodeUsize(v) == [i \in 1..WordBytes |-> (v \div (256 ^ (i - 1))) % 256]

RECURSIVE DecodeUsize(_)
DecodeUsize(cells) ==
    IF cells = <<>> THEN 0
    ELSE Head(cells) + 256 * DecodeUsize(Tail(cells))

----------------------------------------------------------------------------
(* Status codes: StatusErrorKind and the native iree_status_code_e *)

Kinds == <<"Cancelled", "Unknown", "InvalidArgument", "DeadlineExceeded",
           "NotFound", "AlreadyExists", "PermissionDenied", "ResourceExhausted",
           "FailedPrecondition", "Aborted", "OutOfRange", "Unimplemented",
           "Internal", "Unavailable", "DataLoss", "Unauthenticated", "Deferred",
           "UnknownStatus">>

KindSet == {Kinds[i] : i \in 1..Len(Kinds)}

\* The native code constants sys::iree_status_code_e_IREE_STATUS_*.
IREE_STATUS(name) ==
    CASE name = "OK" -> 0
      [] name = "CANCELLED" -> 1
      [] name = "UNKNOWN" -> 2
      [] name = "INVALID_ARGUMENT" -> 3
      [] name = "DEADLINE_EXCEEDED" -> 4
      [] name = "NOT_FOUND" -> 5
      [] name = "ALREADY_EXISTS" -> 6
      [] name = "PERMISSION_DENIED" -> 7
      [] name = "RESOURCE_EXHAUSTED" -> 8
      [] name = "FAILED_PRECONDITION" -> 9
      [] name = "ABORTED" -> 10
      [] name = "OUT_OF_RANGE" -> 11
      [] name = "UNIMPLEMENTED" -> 12
      [] name = "INTERNAL" -> 13
      [] name = "UNAVAILABLE" -> 14
      [] name = "DATA_LOSS" -> 15
      [] name = "UNAUTHENTICATED" -> 16
      [] name = "DEFERRED" -> 17

Panic == 0 - 1

\* impl From<sys::iree_status_code_e> for StatusErrorKind
KindFromCode(c) ==
    CASE c = IREE_STATUS("CANCELLED") -> "Cancelled"
      [] c = IREE_STATUS("UNKNOWN") -> "Unknown"
      [] c = IREE_STATUS("INVALID_ARGUMENT") -> "InvalidArgument"
      [] c = IREE_STATUS("DEADLINE_EXCEEDED") -> "DeadlineExceeded"
      [] c = IREE_STATUS("NOT_FOUND") -> "NotFound"
      [] c = IREE_STATUS("ALREADY_EXISTS") -> "AlreadyExists"
      [] c = IREE_STATUS("PERMISSION_DENIED") -> "PermissionDenied"
      [] c = IREE_STATUS("RESOURCE_EXHAUSTED") -> "ResourceExhausted"
      [] c = IREE_STATUS("FAILED_PRECONDITION") -> "FailedPrecondition"
      [] c = IREE_STATUS("ABORTED") -> "Aborted"
      [] c = IREE_STATUS("OUT_OF_RANGE") -> "OutOfRange"
      [] c = IREE_STATUS("UNIMPLEMENTED") -> "Unimplemented"
      [] c = IREE_STATUS("INTERNAL") -> "Internal"
      [] c = IREE_STATUS("UNAVAILABLE") -> "Unavailable"
      [] c = IREE_STATUS("DATA_LOSS") -> "DataLoss"
      [] c = IREE_STATUS("UNAUTHENTICATED") -> "Unauthenticated"
      [] c = IREE_STATUS("DEFERRED") -> "Deferred"
      [] OTHER -> "UnknownStatus"

\* A conversion by the variant's position in the enum, which never panics.
CodeFromKindByOrder(k) == CHOOSE i \in 1..Len(Kinds) : Kinds[i] = k

\* impl From<StatusErrorKind> for sys::iree_status_code_t; Panic: panic!().
CodeFromKind(k) ==
    CASE k = "Cancelled" -> IREE_STATUS("CANCELLED")
      [] k = "Unknown" -> IREE_STATUS("UNKNOWN")
      [] k = "InvalidArgument" -> IREE_STATUS("INVALID_ARGUMENT")
      [] k = "DeadlineExceeded" -> IREE_STATUS("DEADLINE_EXCEEDED")
      [] k = "NotFound" -> IREE_STATUS("NOT_FOUND")
      [] k = "AlreadyExists" -> IREE_STATUS("ALREADY_EXISTS")
      [] k = "PermissionDenied" -> IREE_STATUS("PERMISSION_DENIED")
      [] k = "ResourceExhausted" -> IREE_STATUS("RESOURCE_EXHAUSTED")
      [] k = "FailedPrecondition" -> IREE_STATUS("FAILED_PRECONDITION")
      [] k = "Aborted" -> IREE_STATUS("ABORTED")
      [] k = "OutOfRange" -> IREE_STATUS("OUT_OF_RANGE")
      [] k = "Unimplemented" -> IREE_STATUS("UNIMPLEMENTED")
      [] k = "Internal" -> IREE_STATUS("INTERNAL")
      [] k = "Unavailable" -> IREE_STATUS("UNAVAILABLE")
      [] k = "DataLoss" -> IREE_STATUS("DATA_LOSS")
      [] k = "Unauthenticated" -> IREE_STATUS("UNAUTHENTICATED")
      [] k = "Deferred" -> IREE_STATUS("DEFERRED")
      [] k = "UnknownStatus" -> Panic

\* static STATUS_CODES: [usize; 18], and the address the build gives it.
STATUS_CODES == [i \in 0..17 |-> i]
STATUS_CODES_ADDR == 3 * (2 ^ (PtrBits - 2))

\* A from_code that indexes STATUS_CODES by the enum's discriminant.
from_code_Discriminant(kind) ==
    STATUS_CODES_ADDR + (CodeFromKind(kind) - 1) * WordBytes

\* Status::from_code: the address of STATUS_CODES[code].
from_code(kind) == STATUS_CODES_ADDR + CodeFromKind(kind) * WordBytes

\* Status::is_ok
is_ok(ctx) == ctx = 0

\* The usize a status handle made by from_code points to.
StatusRecord(ctx) == STATUS_CODES[(ctx - STATUS_CODES_ADDR) \div WordBytes]

----------------------------------------------------------------------------
(* The status-code mapping, applied to drawn codes *)

NotConverted == 0 - 2

IdleCodes ==
    /\ codeIn = 0
    /\ kindOut = "None"
    /\ codeBack = NotConverted

\* StatusErrorKind::from(code)
ConvertCode ==
    /\ kindOut = "None"
    /\ kindOut' = KindFromCode(codeIn)
    /\ UNCHANGED <<codeIn, codeBack, allocVars, statusVars, ownVars>>

\* iree_status_code_t::from(kind), on the kind just obtained
ConvertKind ==
    /\ kindOut # "None"
    /\ codeBack = NotConverted
    /\ codeBack' = CodeFromKind(kindOut)
    /\ UNCHANGED <<codeIn, kindOut, allocVars, statusVars, ownVars>>

NextCodes == ConvertCode \/ ConvertKind

----------------------------------------------------------------------------
(* The native status records: iree_status_ignore, iree_status_join *)

Handles == 1..MaxHandles
Slots == 1..MaxVals

NoVal == [kind |-> "none", ctx |-> 0]
NoChain == [a |-> 0, b |-> 0, out |-> 0, outRec |-> "none", calls |-> 0]
IdleFmt == [pc |-> "idle", slot |-> 0, bufptr |-> NULL, size |-> 0, out |-> "none"]

InitStatus ==
    /\ vals = [s \in Slots |-> NoVal]
    /\ rec = [h \in Handles |-> "unalloc"]
    /\ ignoreCount = [h \in {0} \cup Handles |-> 0]
    /\ renders = [h \in Handles |-> 0]
    /\ misused = {}
    /\ chained = {}
    /\ lastChain = NoChain
    /\ droppedAs = [h \in Handles |-> "none"]
    /\ fmt = IdleFmt

\* The records after iree_status_ignore(ctx): the record is freed.
Ignore(r, ctx) == IF ctx \in Handles THEN [r EXCEPT ![ctx] = "freed"] ELSE r

\* iree_status_join(a, b): b if a is ok, a if b is ok, else a with b's
\* record merged into it and freed.
JoinOut(a, b) == IF a = 0 THEN b ELSE a
JoinRec(r, a, b) == IF a # 0 /\ b # 0 THEN [r EXCEPT ![b] = "freed"] ELSE r

\* The handles a native call was given after their records were freed.
Stale(r, ctxs) == {h \in ctxs \cap Handles : r[h] # "live"}

----------------------------------------------------------------------------
(* Status and StatusError *)

\* A Drop for Status that does not test is_ok.
DropCallsUnchecked(ctx) == <<ctx>>

\* Drop for Status: the iree_status_ignore calls it makes.
DropCalls(ctx) == IF ~is_ok(ctx) THEN <<ctx>> ELSE <<>>

RECURSIVE IgnoreAll(_, _)
IgnoreAll(r, calls) ==
    IF calls = <<>> THEN r ELSE IgnoreAll(Ignore(r, Head(calls)), Tail(calls))

RECURSIVE StaleAll(_, _)
StaleAll(r, calls) ==
    IF calls = <<>> THEN {}
    ELSE Stale(r, {Head(calls)}) \cup StaleAll(Ignore(r, Head(calls)), Tail(calls))

Times(calls, h) == Cardinality({i \in 1..Len(calls) : calls[i] = h})

\* The effect of a sequence of iree_status_ignore calls, made by drops of
\* wrappers of type `as`.
Ignored(calls, as) ==
    /\ rec' = IgnoreAll(rec, calls)
    /\ ignoreCount' = [h \in DOMAIN ignoreCount |-> ignoreCount[h] + Times(calls, h)]
    /\ misused' = misused \cup StaleAll(rec, calls)
    /\ droppedAs' = [h \in Handles |->
                        IF Times(calls, h) > 0 THEN as ELSE droppedAs[h]]

\* No fmt is under way, and the native library has not been handed a freed
\* record: what it does after that is undefined, and the model follows it
\* no further.
Quiet == pc = "running" /\ fmt.pc = "idle" /\ misused = {}

\* A native entry point returns raw status h, and Status::from_raw wraps it.
FromRaw(slot, h) ==
    /\ Quiet
    /\ vals[slot].kind = "none"
    /\ h # 0 => (rec[h] = "unalloc" /\ \A g \in Handles : rec[g] = "unalloc" => h <= g)
    /\ vals' = [vals EXCEPT ![slot] = [kind |-> "Status", ctx |-> h]]
    /\ rec' = IF h = 0 THEN rec ELSE [rec EXCEPT ![h] = "live"]
    /\ UNCHANGED <<ignoreCount, renders, misused, chained, lastChain, droppedAs, fmt>>
    /\ UNCHANGED <<allocVars, codeVars, ownVars>>

\* A to_result that copies ctx into a new Status and lets self drop.
ToResultByCopy(slot) ==
    /\ Quiet
    /\ vals[slot].kind = "Status"
    /\ vals' = [vals EXCEPT ![slot] =
                  IF is_ok(vals[slot].ctx) THEN NoVal
                  ELSE [kind |-> "StatusError", ctx |-> vals[slot].ctx]]
    /\ Ignored(DropCalls(vals[slot].ctx), "Status")
    /\ UNCHANGED <<renders, chained, lastChain, fmt>>
    /\ UNCHANGED <<allocVars, codeVars, ownVars>>

\* Status::to_result: Ok(()) drops self, which is ok; Err moves self into
\* the StatusError.
ToResult(slot) ==
    /\ Quiet
    /\ vals[slot].kind = "Status"
    /\ IF is_ok(vals[slot].ctx)
       THEN /\ vals' = [vals EXCEPT ![slot] = NoVal]
            /\ Ignored(DropCalls(vals[slot].ctx), "Status")
       ELSE /\ vals' = [vals EXCEPT ![slot] =
                          [kind |-> "StatusError", ctx |-> vals[slot].ctx]]
            /\ UNCHANGED <<rec, ignoreCount, misused, droppedAs>>
    /\ UNCHANGED <<renders, chained, lastChain, fmt>>
    /\ UNCHANGED <<allocVars, codeVars, ownVars>>

\* A Status or a StatusError goes out of scope.
DropValue(slot) ==
    /\ Quiet
    /\ vals[slot].kind # "none"
    /\ vals' = [vals EXCEPT ![slot] = NoVal]
    /\ Ignored(DropCalls(vals[slot].ctx), vals[slot].kind)
    /\ UNCHANGED <<renders, chained, lastChain, fmt>>
    /\ UNCHANGED <<allocVars, codeVars, ownVars>>

\* Status::chain(self, other): the joined handle is wrapped; self and other
\* were taken by value and are dropped when chain returns, other first.
Chain(self, other) ==
    /\ Quiet
    /\ self # other
    /\ vals[self].kind = "Status"
    /\ vals[other].kind = "Status"
    /\ LET a == vals[self].ctx
           b == vals[other].ctx
           out == JoinOut(a, b)
           joined == JoinRec(rec, a, b)
           calls == DropCalls(b) \o DropCalls(a)
       IN  /\ vals' = [vals EXCEPT ![self] = [kind |-> "Status", ctx |-> out],
                                   ![other] = NoVal]
           /\ rec' = IgnoreAll(joined, calls)
           /\ ignoreCount' = [h \in DOMAIN ignoreCount |->
                                 ignoreCount[h] + Times(calls, h)]
           /\ misused' = misused \cup Stale(rec, {a, b}) \cup StaleAll(joined, calls)
           /\ droppedAs' = [h \in Handles |->
                               IF Times(calls, h) > 0 THEN "Status" ELSE droppedAs[h]]
           /\ chained' = chained \cup ({a, b} \cap Handles)
           /\ lastChain' = [a |-> a, b |-> b, out |-> out,
                            outRec |-> IF out = 0 THEN "ok"
                                       ELSE IgnoreAll(joined, calls)[out],
                            calls |-> Len(calls)]
    /\ UNCHANGED <<renders, fmt>>
    /\ UNCHANGED <<allocVars, codeVars, ownVars>>

----------------------------------------------------------------------------
(* Instance, Device, Session: the values a caller of the public API owns *)

Insts == 1..MaxInst
Devs == 1..MaxDev
Sessions == 1..MaxSess
Bufs == 1..MaxBuf

NoDev == [st |-> "none", from |-> 0]
NoSess == [st |-> "none", inst |-> 0, dev |-> 0, bufs |-> {}, fromFile |-> FALSE]
NoCall == [op |-> "none", status |-> "OK", returned |-> "Ok",
           instAlive |-> TRUE, devAlive |-> TRUE]

\* The raw statuses a native entry point is taken to return.
NativeResults == {"OK", "INVALID_ARGUMENT", "FAILED_PRECONDITION"}

InitOwn ==
    /\ inst = [i \in Insts |-> "none"]
    /\ dev = [d \in Devs |-> NoDev]
    /\ sess = [x \in Sessions |-> NoSess]
    /\ buf = [b \in Bufs |-> "alive"]
    /\ releases = [instance |-> [i \in Insts |-> 0],
                   device |-> [d \in Devs |-> 0],
                   session |-> [x \in Sessions |-> 0]]
    /\ lastCall = NoCall

\* The next unused id of a table (ids are handed out in order).
Next1(table, none) ==
    {k \in DOMAIN table : table[k] = none /\
                          \A j \in DOMAIN table : j < k => table[j] # none}

(* What the borrow checker holds the caller to, read off the types. *)

\* hal::Device is built as Device { ctx } from a raw pointer and named
\* without a lifetime argument in Session's field: it has no lifetime
\* parameter, so the Device returned by try_create_default_device(&self, ..)
\* keeps no borrow of the Instance.
DeviceBorrowsInstance == FALSE

\* Whether Session<'a, 'b> is invariant in 'b.  Its fields are &'a Instance
\* and PhantomData<&'b mut Device>, both covariant in their lifetime.
SessionInvariantInB == FALSE

\* A Session without the _instance: &'a Instance field.
InstanceBorrowedByDevicesOnly(i) ==
    DeviceBorrowsInstance /\ \E d \in Devs : dev[d].st = "alive" /\ dev[d].from = i

\* Instance i is borrowed by a live value: Session holds _instance: &'a
\* Instance, and has a Drop impl, so the borrow lasts until the Session drops.
InstanceBorrowed(i) ==
    \/ \E x \in Sessions : sess[x].st = "alive" /\ sess[x].inst = i
    \/ DeviceBorrowsInstance /\ \E d \in Devs : dev[d].st = "alive" /\ dev[d].from = i

\* Device d is borrowed by a live value: create_with_device takes
\* device: &'b Device and Session carries 'b.
DeviceBorrowed(d) == \E x \in Sessions : sess[x].st = "alive" /\ sess[x].dev = d

\* Buffer b is borrowed by a live value.  append_module_from_memory takes
\* &self and flatbuffer_data: &'b [u8]; as Session is covariant in 'b the
\* receiver is taken at a shorter 'b, and the borrow of the buffer ends with
\* the call.
BufferBorrowed(b) ==
    SessionInvariantInB /\ \E x \in Sessions : sess[x].st = "alive" /\ b \in sess[x].bufs

\* A conversion that swallows the status.
ResultOfSwallowed(r) == "Ok"

\* Status::from_raw(status).to_result().map_err(RuntimeError::StatusError)
ResultOf(r) == IF is_ok(IREE_STATUS(r)) THEN "Ok" ELSE "Err"

Called(op, r, i, d) ==
    lastCall' = [op |-> op, status |-> r, returned |-> ResultOf(r),
                 instAlive |-> (i = 0 \/ inst[i] = "alive"),
                 devAlive |-> (d = 0 \/ dev[d].st = "alive")]

OwnFrame == UNCHANGED <<allocVars, codeVars, statusVars, concVars>>

\* Instance::new: iree_runtime_instance_create, then to_result()?
InstanceNew(i, r) ==
    /\ i \in Next1(inst, "none")
    /\ inst' = IF ResultOf(r) = "Ok" THEN [inst EXCEPT ![i] = "alive"] ELSE inst
    /\ Called("instance_create", r, 0, 0)
    /\ UNCHANGED <<dev, sess, buf, releases>>
    /\ OwnFrame

\* Instance::try_create_default_device(&self, name)
TryCreateDefaultDevice(i, d, r) ==
    /\ inst[i] = "alive"
    /\ d \in Next1(dev, NoDev)
    /\ dev' = IF ResultOf(r) = "Ok"
              THEN [dev EXCEPT ![d] = [st |-> "alive", from |-> i]]
              ELSE dev
    /\ Called("try_create_default_device", r, i, 0)
    /\ UNCHANGED <<inst, sess, buf, releases>>
    /\ OwnFrame

\* A create_with_device that builds the wrapper around out_ptr before it
\* looks at the status: on failure the wrapper is dropped by the early return.
CreateWithDeviceBuiltFirst(x, i, d, r) ==
    /\ inst[i] = "alive"
    /\ dev[d].st = "alive"
    /\ x \in Next1(sess, NoSess)
    /\ sess' = IF ResultOf(r) = "Ok"
               THEN [sess EXCEPT ![x] = [st |-> "alive", inst |-> i, dev |-> d,
                                         bufs |-> {}, fromFile |-> FALSE]]
               ELSE [sess EXCEPT ![x] = [NoSess EXCEPT !.st = "dropped"]]
    /\ releases' = IF ResultOf(r) = "Ok" THEN releases
                   ELSE [releases EXCEPT !.session[x] = @ + 1]
    /\ Called("session_create_with_device", r, i, d)
    /\ UNCHANGED <<inst, dev, buf>>
    /\ OwnFrame

\* Session::create_with_device(instance, options, device)
CreateWithDevice(x, i, d, r) ==
    /\ inst[i] = "alive"
    /\ dev[d].st = "alive"
    /\ x \in Next1(sess, NoSess)
    /\ sess' = IF ResultOf(r) = "Ok"
               THEN [sess EXCEPT ![x] = [st |-> "alive", inst |-> i, dev |-> d,
                                         bufs |-> {}, fromFile |-> FALSE]]
               ELSE sess
    /\ Called("session_create_with_device", r, i, d)
    /\ UNCHANGED <<inst, dev, buf, releases>>
    /\ OwnFrame

\* Session::trim(&self)
Trim(x, r) ==
    /\ sess[x].st = "alive"
    /\ Called("session_trim", r, sess[x].inst, sess[x].dev)
    /\ UNCHANGED <<inst, dev, sess, buf, releases>>
    /\ OwnFrame

\* Session::append_module_from_memory(&self, flatbuffer_data): on success
\* the session keeps a module that points into the caller's buffer.
AppendModuleFromMemory(x, b, r) ==
    /\ sess[x].st = "alive"
    /\ buf[b] = "alive"
    /\ sess' = IF r = "OK" THEN [sess EXCEPT ![x].bufs = @ \cup {b}] ELSE sess
    /\ Called("session_append_bytecode_module_from_memory", r, sess[x].inst, sess[x].dev)
    /\ UNCHANGED <<inst, dev, buf, releases>>
    /\ OwnFrame

\* Session::append_module_from_file(&self, path): on success the session
\* keeps a module the native library read from the file.
AppendModuleFromFile(x, r) ==
    /\ sess[x].st = "alive"
    /\ sess' = IF r = "OK" THEN [sess EXCEPT ![x].fromFile = TRUE] ELSE sess
    /\ Called("session_append_bytecode_module_from_file", r, sess[x].inst, sess[x].dev)
    /\ UNCHANGED <<inst, dev, buf, releases>>
    /\ OwnFrame

\* An Instance released through a copy of the wrapper, the original staying.
DropInstanceOfCopy(i) ==
    /\ inst[i] = "alive"
    /\ ~InstanceBorrowed(i)
    /\ releases' = [releases EXCEPT !.instance[i] = @ + 1]
    /\ Called("instance_release", "OK", 0, 0)
    /\ UNCHANGED <<inst, dev, sess, buf>>
    /\ OwnFrame

\* Drop for Instance, when its owner lets go of it.
DropInstance(i) ==
    /\ inst[i] = "alive"
    /\ ~InstanceBorrowed(i)
    /\ inst' = [inst EXCEPT ![i] = "dropped"]
    /\ releases' = [releases EXCEPT !.instance[i] = @ + 1]
    /\ Called("instance_release", "OK", 0, 0)
    /\ UNCHANGED <<dev, sess, buf>>
    /\ OwnFrame

\* The Device is released when its owner lets go of it.
DropDevice(d) ==
    /\ dev[d].st = "alive"
    /\ ~DeviceBorrowed(d)
    /\ dev' = [dev EXCEPT ![d] = [NoDev EXCEPT !.st = "dropped"]]
    /\ releases' = [releases EXCEPT !.device[d] = @ + 1]
    /\ Called("device_release", "OK", 0, 0)
    /\ UNCHANGED <<inst, sess, buf>>
    /\ OwnFrame

\* Drop for Session: the wrapper and its borrows are gone, and the native
\* session's modules with it.
DropSession(x) ==
    /\ sess[x].st = "alive"
    /\ sess' = [sess EXCEPT ![x] = [NoSess EXCEPT !.st = "dropped"]]
    /\ releases' = [releases EXCEPT !.session[x] = @ + 1]
    /\ Called("session_release", "OK", sess[x].inst, sess[x].dev)
    /\ UNCHANGED <<inst, dev, buf>>
    /\ OwnFrame

\* The caller lets go of a byte buffer it owns.
DropBuffer(b) ==
    /\ buf[b] = "alive"
    /\ ~BufferBorrowed(b)
    /\ buf' = [buf EXCEPT ![b] = "dropped"]
    /\ UNCHANGED <<inst, dev, sess, releases, lastCall>>
    /\ OwnFrame

NextOwn ==
    \/ \E i \in Insts, r \in NativeResults : InstanceNew(i, r)
    \/ \E i \in Insts, d \in Devs, r \in NativeResults : TryCreateDefaultDevice(i, d, r)
    \/ \E x \in Sessions, i \in Insts, d \in Devs, r \in NativeResults :
          CreateWithDevice(x, i, d, r)
    \/ \E x \in Sessions, r \in NativeResults : Trim(x, r)
    \/ \E x \in Sessions, b \in Bufs, r \in NativeResults : AppendModuleFromMemory(x, b, r)
    \/ \E x \in Sessions, r \in NativeResults : AppendModuleFromFile(x, r)
    \/ \E i \in Insts : DropInstance(i)
    \/ \E d \in Devs : DropDevice(d)
    \/ \E x \in Sessions : DropSession(x)
    \/ \E b \in Bufs : DropBuffer(b)

----------------------------------------------------------------------------
(* Execution contexts: which context may be inside a native call *)

Ctxs == 1..MaxCtx

\* The values a context can call into: <<"instance", i>> and <<"session", x>>.
Values == ({"instance"} \X Insts) \cup ({"session"} \X Sessions)

NoneInCall == [kind |-> "none", id |-> 0, op |-> "none"]

\* Every Session is built by the first context.
InitConc ==
    /\ owner = [x \in Sessions |-> 1]
    /\ inCall = [c \in Ctxs |-> NoneInCall]

Exists(v) == IF v[1] = "instance" THEN inst[v[2]] = "alive"
                                  ELSE sess[v[2]].st = "alive"

\* unsafe impl Send for Instance {} and unsafe impl Send for Session<'_, '_> {}
IsSend(kind) == kind \in {"instance", "session"}

\* A Session that was also declared Sync.
IsSyncDeclaredForAll(kind) == kind \in {"instance", "session"}

\* unsafe impl Sync for Instance {}.  Session has no Sync impl and holds the
\* raw pointer ctx: *mut iree_runtime_session_t, so it is not Sync.
IsSync(kind) == kind = "instance"

\* The contexts that can reach value v: a shared reference &T can be handed
\* to another context only when T is Sync; otherwise only the owner has it.
CanReach(v) == IF IsSync(v[1]) THEN Ctxs ELSE {owner[v[2]]}

\* The contexts inside a native call on value v.
Inside(v) == {c \in Ctxs : inCall[c].kind = v[1] /\ inCall[c].id = v[2]}

\* The safe wrapper methods that take &self.
Methods(kind) ==
    IF kind = "instance" THEN {"try_create_default_device"}
    ELSE {"session_trim"}

ConcFrame == UNCHANGED <<allocVars, codeVars, statusVars>>

\* The owner of Session x moves it to context c: the value must be Send and
\* not borrowed by a call in progress.
MoveTo(x, c) ==
    /\ sess[x].st = "alive"
    /\ IsSend("session")
    /\ c # owner[x]
    /\ Inside(<<"session", x>>) = {}
    /\ owner' = [owner EXCEPT ![x] = c]
    /\ UNCHANGED <<inCall, inst, dev, sess, buf, releases, lastCall>>
    /\ ConcFrame

\* Context c calls method op on v and enters the native entry point.  A
\* context makes one call at a time (the wrappers are synchronous).
EnterCall(c, v, op) ==
    /\ Exists(v)
    /\ c \in CanReach(v)
    /\ inCall[c] = NoneInCall
    /\ op \in Methods(v[1])
    /\ inCall' = [inCall EXCEPT ![c] = [kind |-> v[1], id |-> v[2], op |-> op]]
    /\ UNCHANGED <<owner, inst, dev, sess, buf, releases, lastCall>>
    /\ ConcFrame

\* The native entry point context c is inside returns status r, and the
\* wrapper method returns.
LeaveCall(c, r) ==
    /\ inCall[c] # NoneInCall
    /\ LET op == inCall[c].op
           id == inCall[c].id
       IN  CASE op = "session_trim" ->
                  /\ Called(op, r, sess[id].inst, sess[id].dev)
                  /\ UNCHANGED <<sess, dev>>
             [] op = "try_create_default_device" ->
                  /\ Called(op, r, id, 0)
                  /\ (ResultOf(r) = "Ok") => Next1(dev, NoDev) # {}
                  /\ dev' = IF ResultOf(r) = "Ok"
                            THEN [dev EXCEPT ![CHOOSE d \in Next1(dev, NoDev) : TRUE] =
                                                [st |-> "alive", from |-> id]]
                            ELSE dev
                  /\ UNCHANGED sess
    /\ inCall' = [inCall EXCEPT ![c] = NoneInCall]
    /\ UNCHANGED <<owner, inst, buf, releases>>
    /\ ConcFrame

NextConc ==
    \/ \E i \in Insts, r \in NativeResults : InstanceNew(i, r)
    \/ \E i \in Insts, d \in Devs, r \in NativeResults : TryCreateDefaultDevice(i, d, r)
    \/ \E x \in Sessions, i \in Insts, d \in Devs, r \in NativeResults :
          CreateWithDevice(x, i, d, r)
    \/ \E x \in Sessions, c \in Ctxs : MoveTo(x, c)
    \/ \E c \in Ctxs, v \in Values : \E op \in Methods(v[1]) : EnterCall(c, v, op)
    \/ \E c \in Ctxs, r \in NativeResults : LeaveCall(c, r)

----------------------------------------------------------------------------
(* The host allocator (std::alloc) as the bridge calls it *)

\* The host has one region more than the caller ever holds, so that a
\* realloc can always move the block as well as grow it in place.
SlotBytes == 2 * ALIGNMENT
Bases == {k * SlotBytes : k \in 1..(MaxLive + 1)}
HostFree == {b \in Bases : heap[b] = <<>>}

\* Layout's precondition: the size, rounded up to the alignment, fits isize.
LayoutValid(lsize) == lsize <= ISIZE_MAX - (ALIGNMENT - 1)

\* The free region the host allocator hands out next (first fit).
FirstFit == {b \in HostFree : \A c \in HostFree : b <= c}

\* What alloc / alloc_zeroed / realloc may return for a block of lsize bytes:
\* null, or the base of a free ALIGNMENT-aligned region.
HostResults(lsize) ==
    IF LayoutValid(lsize) /\ lsize <= SlotBytes THEN FirstFit \cup {NULL} ELSE {NULL}

\* from_size_align_unchecked on an invalid layout is undefined: a build with
\* the precondition checks aborts, any other build calls the allocator.
LayoutOutcomes(lsize) == IF LayoutValid(lsize) THEN {"call"} ELSE {"call", "abort"}

\* An alloc_zeroed that hands out the block as alloc does.
FreshUninit(lsize, zeroed) == [i \in 1..lsize |-> Uninit]

Fresh(lsize, zeroed) == [i \in 1..lsize |-> IF zeroed THEN 0 ELSE Uninit]

\* A realloc that hands out a block without copying the old one.
ResizedNoCopy(cells, lsize) == [i \in 1..lsize |-> Uninit]

\* realloc: the first Min(old, new) bytes are kept, the rest is uninitialised.
Resized(cells, lsize) ==
    [i \in 1..lsize |-> IF i <= Len(cells) THEN cells[i] ELSE Uninit]

----------------------------------------------------------------------------
(* rust_allocator_ctl *)

\* A header store that records the block size instead of the requested size.
StoreUsizeBlockSize(cells, v) ==
    [i \in 1..Len(cells) |->
        IF i <= WordBytes THEN EncodeUsize(v + ALIGNMENT)[i] ELSE cells[i]]

\* *(ptr as *mut usize) = v, on the cells of the block that starts at ptr.
StoreUsize(cells, v) ==
    [i \in 1..Len(cells) |-> IF i <= WordBytes THEN EncodeUsize(v)[i] ELSE cells[i]]

\* *(ptr as *mut usize), ptr the start of a block.
LoadUsize(ptr) == DecodeUsize(SubSeq(heap[ptr], 1, WordBytes))

\* The user-visible bytes of the block whose user pointer is p.
UserBytes(h, p) ==
    LET cells == h[wrapping_sub(p, ALIGNMENT)]
    IN  SubSeq(cells, ALIGNMENT + 1, Len(cells))

\* The caller's record of the blocks it holds.
Given(h, p, size) == [q \in (DOMAIN h) \cup {p} |-> IF q = p THEN size ELSE h[q]]
Returned(h, p) == [q \in (DOMAIN h) \ {p} |-> h[q]]

NoCmd == [cmd |-> "NONE", size |-> 0, in |-> NULL, host |-> "none",
          hostLayout |-> 0, hostActual |-> 0, oldUser |-> <<>>, dropped |-> NULL]

\* A return of a failing status that also clears the caller's pointer.
ReturnCodeNulling(cmd, size, in, kind) ==
    LET ctx == from_code(kind)
    IN  /\ status' = ctx
        /\ inout' = NULL
        /\ last' = [NoCmd EXCEPT !.cmd = cmd, !.size = size, !.in = in,
                                 !.dropped = IF is_ok(ctx) THEN NULL ELSE ctx]
        /\ UNCHANGED <<heap, held, pc>>

\* return Status::from_code(kind).ctx: the temporary Status is dropped when
\* the statement ends, and Drop hands a non-ok ctx to iree_status_ignore.
ReturnCode(cmd, size, in, kind) ==
    LET ctx == from_code(kind)
    IN  /\ status' = ctx
        /\ inout' = in
        /\ last' = [NoCmd EXCEPT !.cmd = cmd, !.size = size, !.in = in,
                                 !.dropped = IF is_ok(ctx) THEN NULL ELSE ctx]
        /\ UNCHANGED <<heap, held, pc>>

\* The header store through a null block pointer faults; a failed layout
\* check aborts.  Either way the process and its memory are gone, and the
\* command does not return.
Die(cmd, size, host, how) ==
    /\ pc' = how
    /\ last' = [NoCmd EXCEPT !.cmd = cmd, !.size = size, !.host = host]
    /\ heap' = [b \in Bases |-> <<>>]
    /\ held' = <<>>
    /\ inout' = NULL
    /\ status' = 0

\* The MALLOC and CALLOC arms (and REALLOC of null, which is MALLOC).
AllocArm(cmd, zeroed, size, in) ==
    IF size > ISIZE_MAX
    THEN ReturnCode(cmd, size, in, "OutOfRange")
    ELSE LET lsize == size + ALIGNMENT
             host == IF zeroed THEN "alloc_zeroed" ELSE "alloc"
         IN  \E ub \in LayoutOutcomes(lsize), ptr \in HostResults(lsize) :
                IF ub = "abort" THEN Die(cmd, size, "none", "abort")
                ELSE IF ptr = NULL THEN Die(cmd, size, host, "segv")
                ELSE /\ heap' = [heap EXCEPT ![ptr] = StoreUsize(Fresh(lsize, zeroed), size)]
                     /\ inout' = wrapping_add(ptr, ALIGNMENT)
                     /\ held' = Given(held, wrapping_add(ptr, ALIGNMENT), size)
                     /\ status' = 0
                     /\ last' = [NoCmd EXCEPT !.cmd = cmd, !.size = size, !.in = in,
                                              !.host = host]
                     /\ pc' = pc

ReallocArm(new_size, in) ==
    IF in = NULL
    THEN AllocArm("REALLOC", FALSE, new_size, in)
    ELSE LET ptr == wrapping_sub(in, ALIGNMENT)
             old_size == LoadUsize(ptr)
             lsize == new_size + ALIGNMENT
             seen == [NoCmd EXCEPT !.cmd = "REALLOC", !.size = new_size, !.in = in,
                                   !.host = "realloc",
                                   !.hostLayout = old_size + ALIGNMENT,
                                   !.hostActual = Len(heap[ptr]),
                                   !.oldUser = UserBytes(heap, in)]
         IN  IF new_size > ISIZE_MAX
             THEN ReturnCode("REALLOC", new_size, in, "OutOfRange")
             ELSE \E ub \in LayoutOutcomes(lsize),
                     np \in (HostResults(lsize) \cup
                             (IF LayoutValid(lsize) /\ lsize <= SlotBytes
                              THEN {ptr} ELSE {})) :
                    IF ub = "abort" THEN Die("REALLOC", new_size, "none", "abort")
                    ELSE IF np = NULL THEN Die("REALLOC", new_size, "realloc", "segv")
                    ELSE /\ heap' = [heap EXCEPT
                                       ![ptr] = <<>>,
                                       ![np] = StoreUsize(Resized(heap[ptr], lsize), new_size)]
                         /\ inout' = wrapping_add(np, ALIGNMENT)
                         /\ held' = Given(Returned(held, in), wrapping_add(np, ALIGNMENT), new_size)
                         /\ status' = 0
                         /\ last' = seen
                         /\ pc' = pc

FreeArm(in) ==
    LET ptr == wrapping_sub(in, ALIGNMENT)
        size == LoadUsize(ptr)
    IN  /\ heap' = [heap EXCEPT ![ptr] = <<>>]
        /\ held' = Returned(held, in)
        /\ inout' = in
        /\ status' = 0
        /\ last' = [NoCmd EXCEPT !.cmd = "FREE", !.in = in, !.host = "dealloc",
                                 !.hostLayout = size + ALIGNMENT,
                                 !.hostActual = Len(heap[ptr])]
        /\ pc' = pc

\* A bridge whose default arm reports UNKNOWN.
rust_allocator_ctl_DefaultUnknown(command, size, in) ==
    CASE command = "MALLOC" -> AllocArm("MALLOC", FALSE, size, in)
      [] command = "CALLOC" -> AllocArm("CALLOC", TRUE, size, in)
      [] command = "REALLOC" -> ReallocArm(size, in)
      [] command = "FREE" -> FreeArm(in)
      [] OTHER -> ReturnCode(command, size, in, "Unknown")

rust_allocator_ctl(command, size, in) ==
    CASE command = "MALLOC" -> AllocArm("MALLOC", FALSE, size, in)
      [] command = "CALLOC" -> AllocArm("CALLOC", TRUE, size, in)
      [] command = "REALLOC" -> ReallocArm(size, in)
      [] command = "FREE" -> FreeArm(in)
      [] OTHER -> ReturnCode(command, size, in, "Unimplemented")

----------------------------------------------------------------------------
(* null_allocator_ctl *)

\* The command values: the four the bridge knows, and any other.
Commands == {"MALLOC", "CALLOC", "REALLOC", "FREE", "OTHER"}

\* onLive: whether *inout_ptr was the user pointer of a live block.
NoNullCmd == [cmd |-> "NONE", onLive |-> FALSE, status |-> 0]

\* A null allocator whose FREE arm gives the block back to the host.
null_allocator_ctl_Freeing(command, in) ==
    /\ lastNull' = [cmd |-> command, onLive |-> in \in DOMAIN held, status |-> 0]
    /\ IF command = "FREE" /\ in \in DOMAIN held
       THEN FreeArm(in)
       ELSE UNCHANGED <<heap, held, inout, status, last, pc>>

\* Both arms only trace; the status returned is the null pointer.
null_allocator_ctl(command, in) ==
    /\ lastNull' = [cmd |-> command, onLive |-> in \in DOMAIN held, status |-> NULL]
    /\ UNCHANGED <<heap, held, inout, status, last, pc>>

----------------------------------------------------------------------------
(* The native library as the caller of the allocator *)

\* Request sizes the caller draws: small ones, the platform maximum, one more.
Sizes == {0, 1, MaxSize, ISIZE_MAX, ISIZE_MAX + 1}

\* The caller passes its pointer variable as the last command left it.
AsLeft == {inout}

\* The byte the holder writes at user offset i - 1.
PatternByte(i) == i

Malloc(size, in) ==
    /\ pc = "running"
    /\ Cardinality(DOMAIN held) < MaxLive
    /\ rust_allocator_ctl("MALLOC", size, in)
    /\ UNCHANGED <<codeVars, statusVars, ownVars, nullVars>>

Calloc(size, in) ==
    /\ pc = "running"
    /\ Cardinality(DOMAIN held) < MaxLive
    /\ rust_allocator_ctl("CALLOC", size, in)
    /\ UNCHANGED <<codeVars, statusVars, ownVars, nullVars>>

Realloc(size, in) ==
    /\ pc = "running"
    /\ in = NULL => Cardinality(DOMAIN held) < MaxLive
    /\ rust_allocator_ctl("REALLOC", size, in)
    /\ UNCHANGED <<codeVars, statusVars, ownVars, nullVars>>

Free(in) ==
    /\ pc = "running"
    /\ rust_allocator_ctl("FREE", 0, in)
    /\ UNCHANGED <<codeVars, statusVars, ownVars, nullVars>>

OtherCommand(size, in) ==
    /\ pc = "running"
    /\ rust_allocator_ctl("OTHER", size, in)
    /\ UNCHANGED <<codeVars, statusVars, ownVars, nullVars>>

\* A command sent to the null allocator.
NullCommand(command, in) ==
    /\ pc = "running"
    /\ null_allocator_ctl(command, in)
    /\ UNCHANGED <<codeVars, statusVars, ownVars>>

\* The holder of a block fills its user bytes.
NativeWrite(p) ==
    /\ pc = "running"
    /\ LET ptr == wrapping_sub(p, ALIGNMENT)
       IN  heap' = [heap EXCEPT ![ptr] =
                      [i \in 1..Len(heap[ptr]) |->
                         IF i > ALIGNMENT THEN PatternByte(i - ALIGNMENT)
                         ELSE heap[ptr][i]]]
    /\ last' = [NoCmd EXCEPT !.cmd = "WRITE", !.in = p]
    /\ UNCHANGED <<held, inout, status, pc>>
    /\ UNCHANGED <<codeVars, statusVars, ownVars, nullVars>>

InitAlloc ==
    /\ heap = [b \in Bases |-> <<>>]
    /\ held = <<>>
    /\ inout = NULL
    /\ status = 0
    /\ last = NoCmd
    /\ pc = "running"
    /\ lastNull = NoNullCmd

Init == InitAlloc /\ IdleCodes /\ InitStatus /\ InitOwn /\ InitConc

NextAlloc ==
    \/ \E size \in Sizes, in \in AsLeft : Malloc(size, in)
    \/ \E size \in Sizes, in \in AsLeft : Calloc(size, in)
    \/ \E size \in Sizes, in \in (DOMAIN held) \cup {NULL} : Realloc(size, in)
    \/ \E in \in DOMAIN held : Free(in)
    \/ \E in \in AsLeft : OtherCommand(0, in)
    \/ \E p \in DOMAIN held : NativeWrite(p)

Spec == Init /\ [][NextAlloc]_vars

\* The null allocator in use while the bridge hands out and takes back blocks.
NextNull ==
    \/ \E size \in Sizes, in \in AsLeft : Malloc(size, in)
    \/ \E in \in DOMAIN held : Free(in)
    \/ \E p \in DOMAIN held : NativeWrite(p)
    \/ \E command \in Commands, in \in AsLeft : NullCommand(command, in)

SpecNull == Init /\ [][NextNull]_vars

----------------------------------------------------------------------------
(* Display for StatusError (Debug delegates to it) *)

\* Lengths of the strings iree_status_to_string renders.
StrLens == {1, MaxSize}

\* The bytes the native library renders: ASCII, or starting with 0xFF.
Rendered(n, ascii) ==
    [i \in 1..n |-> IF ~ascii /\ i = 1 THEN 255 ELSE PatternByte(i)]

\* std::str::from_utf8 on such bytes.
Utf8Valid(bytes) == \A i \in 1..Len(bytes) : bytes[i] < 128

\* iree_status_to_string returns false: nothing was allocated, and fmt
\* writes "Status: <failed to convert to string>".
FmtFailed(slot) ==
    /\ Quiet
    /\ vals[slot].kind = "StatusError"
    /\ renders[vals[slot].ctx] < MaxRenders
    /\ renders' = [renders EXCEPT ![vals[slot].ctx] = @ + 1]
    /\ misused' = misused \cup Stale(rec, {vals[slot].ctx})
    /\ fmt' = [IdleFmt EXCEPT !.slot = slot, !.out = "failed"]
    /\ UNCHANGED <<vals, rec, ignoreCount, chained, lastChain, droppedAs>>
    /\ UNCHANGED <<allocVars, codeVars, ownVars>>

\* iree_status_to_string asks the bridging allocator for n + 1 bytes through
\* &mut bufptr, which fmt set to null.
FmtAlloc(slot, n) ==
    /\ Quiet
    /\ vals[slot].kind = "StatusError"
    /\ renders[vals[slot].ctx] < MaxRenders
    /\ rust_allocator_ctl("MALLOC", n + 1, NULL)
    /\ renders' = [renders EXCEPT ![vals[slot].ctx] = @ + 1]
    /\ misused' = misused \cup Stale(rec, {vals[slot].ctx})
    /\ fmt' = [pc |-> "allocated", slot |-> slot, bufptr |-> inout', size |-> n,
               out |-> "none"]
    /\ UNCHANGED <<vals, rec, ignoreCount, chained, lastChain, droppedAs>>
    /\ UNCHANGED <<codeVars, ownVars, nullVars>>

\* iree_status_to_string renders into the buffer and returns true.
FmtFill(ascii) ==
    /\ pc = "running"
    /\ fmt.pc = "allocated"
    /\ LET ptr == wrapping_sub(fmt.bufptr, ALIGNMENT)
           text == Rendered(fmt.size, ascii)
       IN  heap' = [heap EXCEPT ![ptr] =
                      [i \in 1..Len(heap[ptr]) |->
                         IF i <= ALIGNMENT THEN heap[ptr][i]
                         ELSE IF i - ALIGNMENT <= fmt.size THEN text[i - ALIGNMENT]
                         ELSE 0]]
    /\ fmt' = [fmt EXCEPT !.pc = "returned"]
    /\ last' = [NoCmd EXCEPT !.cmd = "WRITE", !.in = fmt.bufptr]
    /\ UNCHANGED <<held, inout, status, pc>>
    /\ UNCHANGED <<vals, rec, ignoreCount, renders, misused, chained, lastChain,
                   droppedAs>>
    /\ UNCHANGED <<codeVars, ownVars, nullVars>>

\* The rest of fmt: from_utf8(..).map_err(..)? returns before the free;
\* otherwise the text is written and iree_allocator_free hands bufptr to the
\* bridging allocator.
FmtFinish ==
    /\ pc = "running"
    /\ fmt.pc = "returned"
    /\ IF Utf8Valid(SubSeq(UserBytes(heap, fmt.bufptr), 1, fmt.size))
       THEN /\ rust_allocator_ctl("FREE", 0, fmt.bufptr)
            /\ fmt' = [IdleFmt EXCEPT !.slot = fmt.slot, !.out = "written"]
       ELSE /\ held' = Returned(held, fmt.bufptr)
            /\ fmt' = [IdleFmt EXCEPT !.slot = fmt.slot, !.out = "error"]
            /\ UNCHANGED <<heap, inout, status, last, pc>>
    /\ UNCHANGED <<vals, rec, ignoreCount, renders, misused, chained, lastChain,
                   droppedAs>>
    /\ UNCHANGED <<codeVars, ownVars, nullVars>>

NextStatus ==
    \/ \E slot \in Slots, h \in {0} \cup Handles : FromRaw(slot, h)
    \/ \E slot \in Slots : ToResult(slot)
    \/ \E slot \in Slots : DropValue(slot)
    \/ \E self \in Slots, other \in Slots : Chain(self, other)
    \/ \E slot \in Slots : FmtFailed(slot)
    \/ \E slot \in Slots, n \in StrLens : FmtAlloc(slot, n)
    \/ \E ascii \in BOOLEAN : FmtFill(ascii)
    \/ FmtFinish

SpecStatus == Init /\ [][NextStatus]_vars

InitCodes == InitAlloc /\ InitStatus /\ InitOwn /\ InitConc /\ codeIn \in 0..MaxCode
                /\ kindOut = "None" /\ codeBack = NotConverted

SpecCodes == InitCodes /\ [][NextCodes]_vars

SpecOwn == Init /\ [][NextOwn]_vars

SpecConc == Init /\ [][NextConc]_vars

----------------------------------------------------------------------------
(* The allocator bridge: claims *)

LiveBases == {b \in Bases : heap[b] # <<>>}

\* C1: after any sequence of malloc, calloc, realloc and free commands with
\* sizes not above the platform maximum, the hidden header of every block the
\* caller holds is the size most recently requested for it, every held
\* pointer is the user pointer of a live host block of that size plus
\* ALIGNMENT, and the block size realloc and free hand to the host allocator
\* (header + ALIGNMENT) is the size the block was allocated with.
C1_HeaderHoldsRequestedSize ==
    pc = "running" =>
        /\ \A p \in DOMAIN held :
              /\ wrapping_sub(p, ALIGNMENT) \in LiveBases
              /\ LoadUsize(wrapping_sub(p, ALIGNMENT)) = held[p]
              /\ Len(heap[wrapping_sub(p, ALIGNMENT)]) = held[p] + ALIGNMENT
        /\ last.host \in {"realloc", "dealloc"} => last.hostLayout = last.hostActual

\* A block was reallocated to another size and its old layout handed over.
C1_Witness ==
    /\ pc = "running"
    /\ last.cmd = "REALLOC"
    /\ last.host = "realloc"
    /\ last.hostLayout # last.size + ALIGNMENT
    /\ inout \in DOMAIN held
    /\ held[inout] = MaxSize

\* C2: a malloc or calloc command whose byte length exceeds isize::MAX
\* returns a non-ok status whose record holds the native OUT_OF_RANGE code,
\* calls the host allocator for nothing, leaves the heap as it was and leaves
\* the caller's in/out pointer unchanged.
C2_OversizeRejected ==
    [][(last'.cmd \in {"MALLOC", "CALLOC"} /\ last'.size > ISIZE_MAX) =>
          /\ pc' = "running"
          /\ ~is_ok(status')
          /\ StatusRecord(status') = IREE_STATUS("OUT_OF_RANGE")
          /\ last'.host = "none"
          /\ heap' = heap
          /\ held' = held
          /\ inout' = inout]_vars

\* An oversize calloc was refused while the caller's pointer was not null.
C2_Witness ==
    /\ last.cmd = "CALLOC"
    /\ last.size = ISIZE_MAX + 1
    /\ last.in # NULL
    /\ inout = last.in
    /\ ~is_ok(status)

\* C10: a realloc command on a live block of old size s with a new size n
\* within the bound, when it returns, returns ok, leaves in the in/out
\* pointer the user pointer (block start + ALIGNMENT) of a live block of n
\* user bytes whose header is n and whose first Min(s, n) user bytes are the
\* bytes the old block held.
C10_ReallocKeepsPrefix ==
    (pc = "running" /\ last.cmd = "REALLOC" /\ last.in # NULL
                    /\ last.size <= ISIZE_MAX) =>
        /\ is_ok(status)
        /\ wrapping_sub(inout, ALIGNMENT) \in LiveBases
        /\ LoadUsize(wrapping_sub(inout, ALIGNMENT)) = last.size
        /\ Len(UserBytes(heap, inout)) = last.size
        /\ \A i \in 1..Min(Len(last.oldUser), last.size) :
              UserBytes(heap, inout)[i] = last.oldUser[i]

\* A written block of MaxSize bytes was moved and shrunk to one byte.
C10_Witness ==
    /\ pc = "running"
    /\ last.cmd = "REALLOC"
    /\ last.in # NULL
    /\ inout # last.in
    /\ Len(last.oldUser) = MaxSize
    /\ last.oldUser[1] = PatternByte(1)
    /\ last.size = 1
    /\ UserBytes(heap, inout) = <<PatternByte(1)>>

----------------------------------------------------------------------------
(* The status wrapper and the code mapping: claims *)

Holders(h) == {slot \in Slots : vals[slot].kind # "none" /\ vals[slot].ctx = h}

\* C3: Status::chain yields ok when both inputs are ok, and when exactly one
\* input is ok it yields the failing input's handle, whose error record is
\* still live (not disposed of) when chain returns.
C3_ChainYieldsLiveFailing ==
    /\ (lastChain.a = 0 /\ lastChain.b = 0) => lastChain.out = 0
    /\ (lastChain.a = 0 /\ lastChain.b # 0) =>
          (lastChain.out = lastChain.b /\ lastChain.outRec = "live")
    /\ (lastChain.a # 0 /\ lastChain.b = 0) =>
          (lastChain.out = lastChain.a /\ lastChain.outRec = "live")

\* C4: a non-ok status wrapped by from_raw, whether or not to_result made a
\* StatusError of it and however often that was rendered, is handed to
\* iree_status_ignore not at all while a value holds it and exactly once
\* when that value has been dropped, so never before a render; the native
\* library is never given its record after it was freed; and the ok status
\* is never handed to iree_status_ignore.  (Handles that went through
\* Status::chain are C3's and C20's.)
C4_IgnoredOnceAfterRenders ==
    /\ ignoreCount[0] = 0
    /\ \A h \in Handles \ chained :
          /\ h \notin misused
          /\ Holders(h) # {} => (ignoreCount[h] = 0 /\ rec[h] = "live")
          /\ (Holders(h) = {} /\ rec[h] # "unalloc") =>
                (ignoreCount[h] = 1 /\ rec[h] = "freed")

\* A StatusError was rendered MaxRenders times, then dropped.
C4_Witness ==
    \E h \in Handles \ chained :
        /\ renders[h] = MaxRenders
        /\ droppedAs[h] = "StatusError"
        /\ ignoreCount[h] = 1
        /\ fmt.out = "written"

DocumentedNames == {"CANCELLED", "UNKNOWN", "INVALID_ARGUMENT", "DEADLINE_EXCEEDED",
                    "NOT_FOUND", "ALREADY_EXISTS", "PERMISSION_DENIED",
                    "RESOURCE_EXHAUSTED", "FAILED_PRECONDITION", "ABORTED",
                    "OUT_OF_RANGE", "UNIMPLEMENTED", "INTERNAL", "UNAVAILABLE",
                    "DATA_LOSS", "UNAUTHENTICATED", "DEFERRED"}
Documented == {IREE_STATUS(n) : n \in DocumentedNames}

\* C9: each of the 17 documented native codes converts to a kind other than
\* UnknownStatus and back to the same code; every other native value
\* converts to UnknownStatus; and converting UnknownStatus back panics.
C9_CodeMappingRoundTrips ==
    /\ Cardinality(Documented) = 17
    /\ kindOut # "None" =>
          /\ kindOut \in KindSet
          /\ kindOut = "UnknownStatus" <=> codeIn \notin Documented
    /\ codeBack # NotConverted =>
          IF codeIn \in Documented THEN codeBack = codeIn ELSE codeBack = Panic

\* DEFERRED, the last documented code, went to Deferred and back.
C9_Witness ==
    /\ codeIn = IREE_STATUS("DEFERRED")
    /\ kindOut = "Deferred"
    /\ codeBack = IREE_STATUS("DEFERRED")

----------------------------------------------------------------------------
(* Instance, Device, Session, module buffers *)

SessionCalls == {"session_trim",
                 "session_append_bytecode_module_from_memory",
                 "session_append_bytecode_module_from_file",
                 "session_release"}

\* C5: an Instance is never released while a Device obtained from it by
\* try_create_default_device is still alive.
C5_InstanceOutlivesDevices ==
    \A d \in Devs : dev[d].st = "alive" => inst[dev[d].from] = "alive"

\* C6: the Instance and the Device a Session was created from are alive for
\* as long as the Session is, and every trim, append and session-release
\* call is made while both are still alive.
C6_SessionReleasedFirst ==
    /\ \A x \in Sessions :
          sess[x].st = "alive" =>
              inst[sess[x].inst] = "alive" /\ dev[sess[x].dev].st = "alive"
    /\ lastCall.op \in SessionCalls => lastCall.instAlive /\ lastCall.devAlive

\* A session was released, and after it both its Device and its Instance.
C6_Witness ==
    /\ lastCall.op = "instance_release"
    /\ \E x \in Sessions : sess[x].st = "dropped"
    /\ \A x \in Sessions : sess[x].st # "alive"
    /\ \E d \in Devs : dev[d].st = "dropped"
    /\ \A i \in Insts : inst[i] = "dropped"

\* C7: the byte buffer of every module appended with
\* append_module_from_memory stays alive for as long as the session that
\* received it is alive.
C7_BufferOutlivesSession ==
    \A x \in Sessions :
        sess[x].st = "alive" => \A b \in sess[x].bufs : buf[b] = "alive"

\* C8: the native release entry point of an Instance or a Session is called
\* once when the wrapper is dropped, and is called neither before that, nor
\* again, nor for a creation that failed.
C8_ReleasedExactlyOnce ==
    /\ \A i \in Insts :
          releases.instance[i] = IF inst[i] = "dropped" THEN 1 ELSE 0
    /\ \A x \in Sessions :
          releases.session[x] = IF sess[x].st = "dropped" THEN 1 ELSE 0

\* Every instance and every session was created and dropped, each released
\* once.
C8_Witness ==
    /\ \A i \in Insts : inst[i] = "dropped" /\ releases.instance[i] = 1
    /\ \A x \in Sessions : sess[x].st = "dropped" /\ releases.session[x] = 1

----------------------------------------------------------------------------
(* The allocator bridge: further claims *)

\* C11: when a calloc command with a size not above the platform maximum
\* returns, the status is ok, the in/out pointer is the user pointer of a
\* live block whose `size` user bytes are all zero, and the block's header
\* holds `size`.
C11_CallocZeroed ==
    (pc = "running" /\ last.cmd = "CALLOC" /\ last.size <= ISIZE_MAX) =>
        /\ is_ok(status)
        /\ wrapping_sub(inout, ALIGNMENT) \in LiveBases
        /\ LoadUsize(wrapping_sub(inout, ALIGNMENT)) = last.size
        /\ UserBytes(heap, inout) = [i \in 1..last.size |-> 0]

\* A calloc of MaxSize bytes returned.
C11_Witness ==
    /\ pc = "running"
    /\ last.cmd = "CALLOC"
    /\ last.size = MaxSize
    /\ inout \in DOMAIN held
    /\ Len(UserBytes(heap, inout)) = MaxSize

\* C12: every user pointer that a successful malloc, calloc or realloc
\* stores in the in/out pointer, and every pointer the caller holds, is a
\* multiple of ALIGNMENT, is not null, and is exactly ALIGNMENT bytes past
\* the start of a live host block.
C12_UserPointerAligned ==
    pc = "running" =>
        /\ (last.cmd \in {"MALLOC", "CALLOC", "REALLOC"} /\ last.size <= ISIZE_MAX) =>
              /\ is_ok(status)
              /\ inout # NULL
              /\ inout % ALIGNMENT = 0
              /\ inout - ALIGNMENT \in LiveBases
              /\ inout \in DOMAIN held
        /\ \A p \in DOMAIN held :
              p % ALIGNMENT = 0 /\ p - ALIGNMENT \in LiveBases

\* A realloc moved a held block, and the caller holds the new pointer.
C12_Witness ==
    /\ pc = "running"
    /\ last.cmd = "REALLOC"
    /\ last.host = "realloc"
    /\ inout # last.in
    /\ inout \in DOMAIN held
    /\ inout % ALIGNMENT = 0

\* C14: when alloc, alloc_zeroed or realloc returns null for a command with
\* a size not above the platform maximum, the process ends in the
\* allocator's failure handling (handle_alloc_error), and in no other way:
\* no header is stored through the null block pointer.
C14_HostFailureAborts ==
    (pc # "running" /\ last.host \in {"alloc", "alloc_zeroed", "realloc"}) =>
        pc = "handle_alloc_error"

----------------------------------------------------------------------------
(* The status wrapper: further claims *)

\* C13: when Display::fmt has returned after iree_status_to_string
\* succeeded, whether it wrote the text or returned fmt::Error, the buffer
\* the native call allocated through the bridging allocator has been freed:
\* no host block is live while no fmt is under way.
C13_RenderBufferFreed ==
    (pc = "running" /\ fmt.pc = "idle" /\ fmt.out \in {"written", "error"}) =>
        LiveBases = {}

----------------------------------------------------------------------------
(* Execution contexts: claims *)

\* C15: at any time at most one execution context is inside a native call
\* on a given session, and that context is the one owning the Session value;
\* the wrapper takes no lock to get this (EnterCall acquires nothing), it
\* follows from Session being Send and not Sync.
C15_OneContextPerSession ==
    \A x \in Sessions :
        /\ Cardinality(Inside(<<"session", x>>)) <= 1
        /\ Inside(<<"session", x>>) \subseteq {owner[x]}

\* A moved session is inside trim in its new context while another context
\* is inside a call on the instance.
C15_Witness ==
    \E x \in Sessions, c \in Ctxs, e \in Ctxs :
        /\ c # 1 /\ e # c
        /\ owner[x] = c
        /\ inCall[c] = [kind |-> "session", id |-> x, op |-> "session_trim"]
        /\ inCall[e].kind = "instance"

----------------------------------------------------------------------------
(* Instance, Device and Session: further claims *)

\* The native entry points whose status a wrapper operation converts.
WrapperCalls == {"instance_create", "try_create_default_device",
                 "session_create_with_device", "session_trim",
                 "session_append_bytecode_module_from_memory",
                 "session_append_bytecode_module_from_file"}

\* The live wrapper values.
Wrappers ==
    {<<"instance", i>> : i \in {j \in Insts : inst[j] = "alive"}}
    \cup {<<"device", d>> : d \in {e \in Devs : dev[e].st = "alive"}}
    \cup {<<"session", x>> : x \in {y \in Sessions : sess[y].st = "alive"}}

\* C16: every wrapper operation that makes a native call returns Err
\* exactly when the native status is not the ok sentinel and Ok exactly
\* when it is; a failing creation call builds no wrapper, a succeeding one
\* builds exactly one.
C16_FailuresPropagate ==
    [][(lastCall' # lastCall /\ lastCall'.op \in WrapperCalls) =>
          /\ (lastCall'.returned = "Err") <=> (IREE_STATUS(lastCall'.status) # 0)
          /\ (lastCall'.returned = "Ok") <=> (IREE_STATUS(lastCall'.status) = 0)
          /\ (lastCall'.returned = "Err") => Wrappers' = Wrappers
          /\ (lastCall'.returned = "Ok" /\ lastCall'.op \in
                {"instance_create", "try_create_default_device",
                 "session_create_with_device"}) =>
                Cardinality(Wrappers') = Cardinality(Wrappers) + 1]_vars

C16_Witness ==
    /\ lastCall.op = "session_append_bytecode_module_from_memory"
    /\ lastCall.status = "FAILED_PRECONDITION"
    /\ lastCall.returned = "Err"
    /\ \E x \in Sessions : sess[x].st = "alive" /\ sess[x].bufs = {}

----------------------------------------------------------------------------
(* The allocator bridge: unknown commands and oversize realloc *)

\* C17: a command other than malloc, calloc, realloc and free returns a
\* non-ok status whose record holds the native UNIMPLEMENTED code, calls the
\* host allocator for nothing, and changes neither the in/out pointer nor
\* any block.
C17_OtherCommandUnimplemented ==
    [][(last'.cmd \notin {"MALLOC", "CALLOC", "REALLOC", "FREE", "WRITE", "NONE"}) =>
          /\ pc' = "running"
          /\ ~is_ok(status')
          /\ StatusRecord(status') = IREE_STATUS("UNIMPLEMENTED")
          /\ last'.host = "none"
          /\ heap' = heap
          /\ held' = held
          /\ inout' = inout]_vars

\* An unknown command arrived while the caller held a block.
C17_Witness ==
    /\ pc = "running"
    /\ last.cmd = "OTHER"
    /\ last.in \in DOMAIN held
    /\ inout = last.in
    /\ StatusRecord(status) = IREE_STATUS("UNIMPLEMENTED")

\* C19: a realloc command on a live block with a new size above isize::MAX
\* returns a non-ok status whose record holds the native OUT_OF_RANGE code
\* and leaves the block untouched: header, contents, liveness and the
\* caller's in/out pointer are unchanged and the host allocator is not
\* called; the block can be freed or reallocated afterwards.
C19_OversizeReallocKeepsBlock ==
    /\ [][(last'.cmd = "REALLOC" /\ last'.size > ISIZE_MAX /\ last'.in # NULL) =>
             /\ pc' = "running"
             /\ ~is_ok(status')
             /\ StatusRecord(status') = IREE_STATUS("OUT_OF_RANGE")
             /\ last'.host = "none"
             /\ heap' = heap
             /\ held' = held
             /\ inout' = last'.in
             /\ inout' \in DOMAIN held'
             /\ LoadUsize(wrapping_sub(inout', ALIGNMENT)) = held'[inout']]_vars
    /\ []((pc = "running" /\ last.cmd = "REALLOC" /\ last.size > ISIZE_MAX
               /\ last.in # NULL) =>
             /\ inout = last.in
             /\ inout \in DOMAIN held
             /\ ENABLED Free(inout)
             /\ ENABLED Realloc(MaxSize, inout))

\* An oversize realloc was refused on a block holding MaxSize written bytes.
C19_Witness ==
    /\ pc = "running"
    /\ last.cmd = "REALLOC"
    /\ last.size = ISIZE_MAX + 1
    /\ last.in \in DOMAIN held
    /\ inout = last.in
    /\ held[inout] = MaxSize
    /\ UserBytes(heap, inout) = [i \in 1..MaxSize |-> PatternByte(i)]
    /\ StatusRecord(status) = IREE_STATUS("OUT_OF_RANGE")

----------------------------------------------------------------------------
(* The null allocator: claims *)

\* C18: the null allocator returns the ok status for every command value,
\* never allocates or deallocates host memory and never modifies the in/out
\* pointer, after any sequence of commands.
C18_NullAllocatorInert ==
    /\ [](is_ok(lastNull.status))
    /\ [][lastNull' # lastNull =>
             /\ lastNull'.cmd \in Commands
             /\ heap' = heap
             /\ LiveBases' = LiveBases
             /\ held' = held
             /\ inout' = inout
             /\ last' = last
             /\ pc' = pc]_vars

\* The null allocator was told to free a pointer to a live block of the
\* bridge, and the block is still there.
C18_Witness ==
    /\ pc = "running"
    /\ lastNull = [cmd |-> "FREE", onLive |-> TRUE, status |-> 0]
    /\ inout \in DOMAIN held
    /\ wrapping_sub(inout, ALIGNMENT) \in LiveBases
    /\ last.cmd = "WRITE"
    /\ UserBytes(heap, inout) = [i \in 1..MaxSize |-> PatternByte(i)]

----------------------------------------------------------------------------
(* Status::chain: the disposal of its inputs *)

\* C20: Status::chain hands both input handles to iree_status_join, which
\* consumes them; when chain has returned, neither input handle was passed
\* to iree_status_ignore, so no handle that went through chain is given to
\* the native library after the join consumed it.
C20_ChainInputsConsumedOnce ==
    /\ lastChain.calls = 0
    /\ \A h \in chained : h \notin misused

----------------------------------------------------------------------------
(* Failed creation *)

CreateCalls == {"instance_create", "session_create_with_device"}

\* C21: when iree_runtime_instance_create or
\* iree_runtime_session_create_with_device returns a non-ok status, no
\* Instance or Session wrapper is built, so no native release call is made
\* for the output handle of the failed create; a release call is only ever
\* made for a wrapper that was built.
C21_FailedCreateNeverReleased ==
    /\ [][(lastCall' # lastCall /\ lastCall'.op \in CreateCalls
              /\ ~is_ok(IREE_STATUS(lastCall'.status))) =>
             /\ inst' = inst
             /\ sess' = sess
             /\ releases' = releases]_vars
    /\ [](/\ \A i \in Insts : releases.instance[i] > 0 => inst[i] # "none"
          /\ \A x \in Sessions : releases.session[x] > 0 => sess[x].st # "none")

\* A session creation has just failed on a live instance and device: there
\* is no session, and nothing was released.
C21_Witness ==
    /\ lastCall.op = "session_create_with_device"
    /\ lastCall.status = "INVALID_ARGUMENT"
    /\ lastCall.returned = "Err"
    /\ lastCall.instAlive /\ lastCall.devAlive
    /\ \A x \in Sessions : sess[x] = NoSess /\ releases.session[x] = 0
    /\ \A i \in Insts : releases.instance[i] = 0

====
